---- MODULE Spec2Model ----
(***************************************************************************)
(* Model of mattermost/cicd-sdk: the merge-mode classifier, the patch-tree *)
(* resolver, the rebase-sequence reconstructor (pkg/github) and the        *)
(* cherry-pick orchestrator (pkg/cherrypicker) driving the local           *)
(* repository adapter (pkg/git).                                           *)
(***************************************************************************)
EXTENDS Integers, Sequences, FiniteSets, TLC

(***************************************************************************)
(* Bounds of the model.                                                    *)
(***************************************************************************)
\* Largest number of head commits of a pull request.
MaxHead == 2
\* Longest list of changed files given to the fingerprint on its own.
MaxFiles == 3
\* Longest porcelain status given to the conflict test on its own.
MaxLines == 3

(***************************************************************************)
(* Program constants.                                                      *)
(***************************************************************************)
REBASE == "rebase"
MERGE == "merge"
SQUASH == "squash"
MMREBASE == "rebase"
MMMERGE == "merge"
MMSQUASH == "squash"
defaultRemote == "origin"
newBranchSlug == "automated-cherry-pick-of-"

(***************************************************************************)
(* Results of Go functions: status is "ok", "error" (a non-nil error was   *)
(* returned together with the zero value) or "panic" (a run-time panic:    *)
(* index out of range, nil dereference).                                   *)
(***************************************************************************)
Ok(v) == [status |-> "ok", val |-> v]
Err(zero) == [status |-> "error", val |-> zero]
Panic(zero) == [status |-> "panic", val |-> zero]

(***************************************************************************)
(* Commit model (pkg/github/commit.go).                                    *)
(***************************************************************************)
FileA == [Filename |-> "a.go", SHA |-> "blob1"]
FileB == [Filename |-> "b.go", SHA |-> "blob2"]
\* The lists of changed files a head commit of a PR may carry, and those a
\* commit of the branch history may carry (the API lists the same files in
\* any order).
FileLists == {<<FileA>>, <<FileA, FileB>>, <<FileB, FileA>>}
BranchFileLists == {<<FileA>>, <<FileA, FileB>>}
\* Root-tree identifiers of the commits the patch-tree resolver looks at.
Trees == {"t1", "t2"}

\* The order of blob hashes (Go compares the strings bytewise).
BlobOrder == <<"blob1", "blob2", "blob3">>
BlobRank(sha) == CHOOSE i \in 1..Len(BlobOrder) : BlobOrder[i] = sha

RECURSIVE InsertSorted(_, _)
InsertSorted(sha, sorted) ==
    IF sorted = <<>> THEN <<sha>>
    ELSE IF BlobRank(sha) <= BlobRank(Head(sorted)) THEN <<sha>> \o sorted
    ELSE <<Head(sorted)>> \o InsertSorted(sha, Tail(sorted))

\* A variant that takes the blob hashes in the order of the list.
SortedBlobsInListOrder(files) == [i \in 1..Len(files) |-> files[i].SHA]

RECURSIVE SortedBlobs(_)
SortedBlobs(files) ==
    IF files = <<>> THEN <<>>
    ELSE InsertSorted(Head(files).SHA, SortedBlobs(Tail(files)))

RECURSIVE JoinBlobs(_)
JoinBlobs(shas) ==
    IF shas = <<>> THEN ""
    ELSE Head(shas) \o ":" \o JoinBlobs(Tail(shas))

\* A variant of the fingerprint that digests the empty list too.
ChangeTreeDigestAlways(files) == "sha256(" \o JoinBlobs(SortedBlobs(files)) \o ")"

\* The content fingerprint of a list of changed files: the blob hashes sorted,
\* joined and digested; the digest is kept symbolic (and injective).
ChangeTree(files) ==
    IF files = <<>> THEN ""
    ELSE "sha256(" \o JoinBlobs(SortedBlobs(files)) \o ")"

NoCommit == [SHA |-> "", TreeSHA |-> "", Parents |-> <<>>, Files |-> <<>>]

(***************************************************************************)
(* State.                                                                  *)
(***************************************************************************)
VARIABLES
    gh,      \* the hosting platform: commits by SHA, the PR's commit list, repo metadata
    pr,      \* the pull request object: Number, MergeCommitSHA
    call,    \* the PR method applied by a direct caller and what it returned
    pc,      \* the statement CreateCherryPickPRWithContext is at
    opts,    \* cherrypicker.Options: RepoPath, ForkOwner, Remote
    state,   \* cherrypicker.State: whether state.repo is set, the repository's options
    wt,      \* the local working tree: checked-out branch, branches, status
    ops,     \* the commands run on the working tree and the requests sent, in order
    run      \* the locals of the run: mergeMode, featureBranch, and what it returned

worldVars == <<gh, pr>>
runVars == <<pc, opts, state, wt, ops, run>>
vars == <<gh, pr, call, pc, opts, state, wt, ops, run>>

(***************************************************************************)
(* The hosting platform as seen through the API (Repository Gateway).      *)
(***************************************************************************)
HeadSHA(i) == "h" \o ToString(i)
BranchSHA(i) == "b" \o ToString(i)
GoneSHA == "gone"
SecondSHA == "p2"

\* Head commit i of n, as authored in the PR.
HeadCommit(i, n, files) ==
    [SHA |-> HeadSHA(i),
     TreeSHA |-> IF i = n THEN "t1" ELSE "t0",
     Parents |-> <<IF i = 1 THEN GoneSHA ELSE HeadSHA(i - 1)>>,
     Files |-> files]

\* Commit j of a branch history of k commits; commit 1 is the one the
\* platform reports as merge_commit_sha.
BranchCommit(j, k, files, tail, second, tree2) ==
    [SHA |-> BranchSHA(j),
     TreeSHA |-> IF j = 2 THEN tree2 ELSE "t0",
     Parents |->
        (IF j < k THEN <<BranchSHA(j + 1)>>
         ELSE IF tail = "root" THEN <<>> ELSE <<GoneSHA>>)
        \o (IF j = 1 /\ second /\ ~(k = 1 /\ tail = "root") THEN <<SecondSHA>> ELSE <<>>),
     Files |-> files]

\* The second parent of a merge commit.
SecondCommit(tree) ==
    [SHA |-> SecondSHA, TreeSHA |-> tree, Parents |-> <<GoneSHA>>, Files |-> <<FileA>>]

Gateway(n, hf, k, cf, tail, second, tree2, stree, repoOK) ==
    [commits |->
        [s \in {HeadSHA(i) : i \in 1..n} \cup {BranchSHA(j) : j \in 1..k}
               \cup (IF second THEN {SecondSHA} ELSE {}) |->
            IF \E i \in 1..n : s = HeadSHA(i)
            THEN LET i == CHOOSE i \in 1..n : s = HeadSHA(i) IN HeadCommit(i, n, hf[i])
            ELSE IF s = SecondSHA THEN SecondCommit(stree)
            ELSE LET j == CHOOSE j \in 1..k : s = BranchSHA(j)
                 IN BranchCommit(j, k, cf[j], tail, second, tree2)],
     prCommits |-> [i \in 1..n |-> HeadSHA(i)],
     repoOK |-> repoOK]

\* What the platform may hold when a pull request is looked at: n head
\* commits, a branch history of k commits behind merge_commit_sha that ends
\* in a root commit or in a commit that cannot be fetched, a merge commit
\* with or without a second parent; at most one of: the repository metadata
\* cannot be loaded, the PR has no merge_commit_sha.
Faults == {<<TRUE, "b1">>, <<FALSE, "b1">>, <<TRUE, "">>}

IsWorld(g, p) ==
    \E n \in 0..MaxHead :
    \E hf \in [1..n -> FileLists] :
    \E k \in 1..(n + 1) :
    \E cf \in [1..k -> BranchFileLists] :
    \E tail \in {"root", "gone"} :
    \E second \in BOOLEAN :
    \E tree2 \in (IF k >= 2 THEN Trees ELSE {"t0"}) :
    \E stree \in (IF second THEN Trees ELSE {"t0"}) :
    \E fault \in Faults :
        /\ g = Gateway(n, hf, k, cf, tail, second, tree2, stree, fault[1])
        /\ p = [Number |-> 100, MergeCommitSHA |-> fault[2], Username |-> "author"]

(***************************************************************************)
(* Repository gateway (pkg/github/repository_implementation.go).           *)
(***************************************************************************)
\* defaultRepoImplementation.getCommit
getCommit(sha) ==
    IF sha \in DOMAIN gh.commits THEN Ok(gh.commits[sha]) ELSE Err(NoCommit)

\* PullRequest.GetRepository: nil when the repository cannot be loaded
GetRepositoryIsNil == ~gh.repoOK

(***************************************************************************)
(* defaultPRImplementation (pkg/github/pullrequest_implementation.go).     *)
(***************************************************************************)
RECURSIVE FetchAll(_)
FetchAll(shas) ==
    IF shas = <<>> THEN Ok(<<>>)
    ELSE LET c == getCommit(Head(shas)) IN
         IF c.status # "ok" THEN Err(<<>>)
         ELSE LET rest == FetchAll(Tail(shas)) IN
              IF rest.status # "ok" THEN Err(<<>>)
              ELSE Ok(<<c.val>> \o rest.val)

\* defaultPRImplementation.getCommits
getCommits == FetchAll(gh.prCommits)

RECURSIVE Reverse(_)
Reverse(s) == IF s = <<>> THEN <<>> ELSE Reverse(Tail(s)) \o <<Head(s)>>

\* A variant of the loop that stops at the first mismatch and returns the
\* commits collected so far.
RECURSIVE implRebaseLoopTruncating(_, _, _, _)
implRebaseLoopTruncating(prCommits, i, branchCommit, acc) ==
    IF i = 0 THEN Ok(Reverse(acc))
    ELSE IF ChangeTree(prCommits[i].Files) # ChangeTree(branchCommit.Files)
         THEN Ok(Reverse(acc))
    ELSE IF branchCommit.Parents = <<>> THEN Panic(<<>>)
    ELSE LET next == getCommit(branchCommit.Parents[1]) IN
         IF next.status # "ok" THEN Err(<<>>)
         ELSE implRebaseLoopTruncating(prCommits, i - 1, next.val, acc \o <<branchCommit>>)

\* The loop of defaultPRImplementation.getRebaseCommits, from index i down
\* to 1, at branchCommit, having collected acc.
RECURSIVE implRebaseLoop(_, _, _, _)
implRebaseLoop(prCommits, i, branchCommit, acc) ==
    IF i = 0 THEN Ok(Reverse(acc))
    ELSE IF ChangeTree(prCommits[i].Files) # ChangeTree(branchCommit.Files) THEN Err(<<>>)
    ELSE IF branchCommit.Parents = <<>> THEN Panic(<<>>)
    ELSE LET next == getCommit(branchCommit.Parents[1]) IN
         IF next.status # "ok" THEN Err(<<>>)
         ELSE implRebaseLoop(prCommits, i - 1, next.val, acc \o <<branchCommit>>)

\* defaultPRImplementation.getRebaseCommits
implGetRebaseCommits ==
    LET prCommits == getCommits IN
    IF prCommits.status # "ok" THEN Err(<<>>)
    ELSE LET branchCommit == getCommit(pr.MergeCommitSHA) IN
         IF branchCommit.status # "ok" THEN Err(<<>>)
         ELSE IF branchCommit.val.Parents = <<>> THEN Err(<<>>)
         ELSE implRebaseLoop(prCommits.val, Len(prCommits.val), branchCommit.val, <<>>)

\* A variant of the classifier that compares the merge commit with the
\* first commit of the list.
implGetMergeModeFirstCommit(commits) ==
    IF GetRepositoryIsNil THEN Err("")
    ELSE IF pr.MergeCommitSHA = "" THEN Err("")
    ELSE LET mergeCommit == getCommit(pr.MergeCommitSHA) IN
         IF mergeCommit.status # "ok" THEN Err("")
         ELSE IF Len(mergeCommit.val.Parents) > 1 THEN Ok(MERGE)
         ELSE IF Len(commits) = 1 THEN Ok(SQUASH)
         ELSE IF Len(commits) = 0 THEN Panic("")
         ELSE IF ChangeTree(mergeCommit.val.Files) = ChangeTree(commits[1].Files)
              THEN Ok(REBASE)
         ELSE Ok(SQUASH)

\* defaultPRImplementation.getMergeMode
implGetMergeMode(commits) ==
    IF GetRepositoryIsNil THEN Err("")
    ELSE IF pr.MergeCommitSHA = "" THEN Err("")
    ELSE LET mergeCommit == getCommit(pr.MergeCommitSHA) IN
         IF mergeCommit.status # "ok" THEN Err("")
         ELSE IF Len(mergeCommit.val.Parents) > 1 THEN Ok(MERGE)
         ELSE IF Len(commits) = 1 THEN Ok(SQUASH)
         ELSE IF Len(commits) = 0 THEN Panic("")
         ELSE IF ChangeTree(mergeCommit.val.Files) = ChangeTree(commits[Len(commits)].Files)
              THEN Ok(REBASE)
         ELSE Ok(SQUASH)

\* A variant of the loop that numbers the parents from 1, the way the
\* mainline option of git cherry-pick does.
RECURSIVE findPatchTreeLoopOneBased(_, _, _)
findPatchTreeLoopOneBased(parents, pn, prSHA) ==
    IF pn >= Len(parents) THEN Err(0)
    ELSE LET parentCommit == getCommit(parents[pn + 1]) IN
         IF parentCommit.status # "ok" THEN Err(0)
         ELSE IF parentCommit.val.TreeSHA = prSHA THEN Ok(pn + 1)
         ELSE findPatchTreeLoopOneBased(parents, pn + 1, prSHA)

\* A variant of the loop that falls back to parent 0 when no parent matches.
RECURSIVE findPatchTreeLoopFallback(_, _, _)
findPatchTreeLoopFallback(parents, pn, prSHA) ==
    IF pn >= Len(parents) THEN Ok(0)
    ELSE LET parentCommit == getCommit(parents[pn + 1]) IN
         IF parentCommit.status # "ok" THEN Err(0)
         ELSE IF parentCommit.val.TreeSHA = prSHA THEN Ok(pn)
         ELSE findPatchTreeLoopFallback(parents, pn + 1, prSHA)

\* The loop over the parents of the merge commit in findPatchTree, from
\* 0-based parent number pn on.
RECURSIVE findPatchTreeLoop(_, _, _)
findPatchTreeLoop(parents, pn, prSHA) ==
    IF pn >= Len(parents) THEN Err(0)
    ELSE LET parentCommit == getCommit(parents[pn + 1]) IN
         IF parentCommit.status # "ok" THEN Err(0)
         ELSE IF parentCommit.val.TreeSHA = prSHA THEN Ok(pn)
         ELSE findPatchTreeLoop(parents, pn + 1, prSHA)

\* defaultPRImplementation.findPatchTree
findPatchTree ==
    LET commits == getCommits IN
    IF commits.status # "ok" THEN Err(0)
    ELSE IF Len(commits.val) = 0 THEN Err(0)
    ELSE LET mergeCommit == getCommit(pr.MergeCommitSHA) IN
         IF mergeCommit.status # "ok" THEN Err(0)
         ELSE IF Len(mergeCommit.val.Parents) = 0 THEN Err(0)
         ELSE findPatchTreeLoop(mergeCommit.val.Parents, 0,
                                commits.val[Len(commits.val)].TreeSHA)

(***************************************************************************)
(* PullRequest (pkg/github/pullrequest.go).                                *)
(***************************************************************************)
\* PullRequest.GetMergeMode
GetMergeMode ==
    LET commits == implGetRebaseCommits IN
    IF commits.status = "panic" THEN Panic("")
    ELSE IF commits.status # "ok" THEN Err("")
    ELSE implGetMergeMode(commits.val)

\* The loop of PullRequest.GetRebaseCommits.
RECURSIVE GetRebaseCommitsLoop(_, _, _, _)
GetRebaseCommitsLoop(prCommits, i, branchCommit, commitSHAs) ==
    IF i = 0 THEN Ok(commitSHAs)
    ELSE IF ChangeTree(prCommits[i].Files) # ChangeTree(branchCommit.Files) THEN Err(<<>>)
    ELSE IF branchCommit.Parents = <<>> THEN Panic(<<>>)
    ELSE LET next == getCommit(branchCommit.Parents[1]) IN
         \* the error message dereferences the nil commit just returned
         IF next.status # "ok" THEN Panic(<<>>)
         ELSE GetRebaseCommitsLoop(prCommits, i - 1, next.val,
                                   commitSHAs \o <<branchCommit.SHA>>)

\* PullRequest.GetRebaseCommits
GetRebaseCommits ==
    IF GetRepositoryIsNil THEN Err(<<>>)
    ELSE LET branchCommit == getCommit(pr.MergeCommitSHA) IN
         IF branchCommit.status # "ok" THEN Err(<<>>)
         ELSE LET prCommits == getCommits IN
              IF prCommits.status # "ok" THEN Err(<<>>)
              ELSE GetRebaseCommitsLoop(prCommits.val, Len(prCommits.val),
                                        branchCommit.val, <<>>)

\* PullRequest.PatchTreeID
PatchTreeID == findPatchTree

(***************************************************************************)
(* Repository.CreatePullRequest and its implementation                     *)
(* (pkg/github/repository.go, repository_implementation.go).               *)
(***************************************************************************)
\* defaultRepoImplementation.createPullRequest: the request sent to the platform
repoImplCreatePullRequest(head, base, title) ==
    [kind |-> "api", head |-> "", args |-> <<"create-pr", head, base, title>>]

\* Repository.CreatePullRequest(ctx, head, base, title, body, opts)
RepositoryCreatePullRequest(head, base, title) ==
    repoImplCreatePullRequest(head, base, title)

(***************************************************************************)
(* Local repository adapter (pkg/git/repository.go). L is the local side:  *)
(* [wt, ops]; every operator returns [L, err] with err "nil" or "error".   *)
(***************************************************************************)
TargetBranch == "release-1.0"
RepoOwner == "mattermost"
RepoName == "mattermost-server"

\* pkg/errors: Wrap(err, msg) is nil when err is nil
Wrap(err) == IF err = "nil" THEN "nil" ELSE "error"

GitCmd(L, args) ==
    [kind |-> "git", head |-> L.wt.head, args |-> args]

Logged(L, entry) == [L EXCEPT !.ops = Append(@, entry)]

\* defaultRepositoryImpl.checkout: git checkout refName
checkout(L, refName, cmdOK) ==
    LET L1 == Logged(L, GitCmd(L, <<"checkout", refName>>)) IN
    IF cmdOK /\ refName \in DOMAIN L.wt.tips
    THEN [L |-> [L1 EXCEPT !.wt.head = refName], err |-> "nil"]
    ELSE [L |-> L1, err |-> "error"]

\* defaultRepositoryImpl.createBranch: git branch branchName
createBranch(L, branchName, cmdOK) ==
    LET L1 == Logged(L, GitCmd(L, <<"branch", branchName>>)) IN
    IF cmdOK /\ branchName \notin DOMAIN L.wt.tips
    THEN [L |-> [L1 EXCEPT !.wt.tips =
                    [b \in DOMAIN L.wt.tips \cup {branchName} |->
                        IF b = branchName THEN L.wt.tips[L.wt.head] ELSE L.wt.tips[b]]],
          err |-> "nil"]
    ELSE [L |-> L1, err |-> Wrap("error")]

\* git cherry-pick applying the first `applied` commits to the checked-out
\* branch; the command succeeds iff it applied them all. `unmerged` is
\* whether it leaves unmerged entries in the index.
RunCherryPick(L, args, commits, applied, unmerged) ==
    LET L1 == Logged(L, GitCmd(L, args)) IN
    [L |-> [L1 EXCEPT !.wt.tips[L.wt.head] = @ \o SubSeq(commits, 1, applied),
                      !.wt.unmerged = unmerged],
     err |-> IF applied = Len(commits) THEN "nil" ELSE "error"]

StrategyArgs(mergeStrategy) ==
    IF mergeStrategy = "recursive-theirs" THEN <<"--strategy=recursive", "-X", "theirs">>
    ELSE IF mergeStrategy = "recursive-ours" THEN <<"--strategy=recursive", "-X", "ours">>
    ELSE <<>>

\* defaultRepositoryImpl.cherryPickCommits
cherryPickCommits(L, repoOpts, commits, branch, env) ==
    LET co == checkout(L, branch, env.checkoutOK) IN
    IF co.err # "nil" THEN [L |-> co.L, err |-> "error"]
    ELSE LET cp == RunCherryPick(co.L,
                       <<"cherry-pick">> \o StrategyArgs(repoOpts.MergeStrategy) \o commits,
                       commits, env.applied, env.unmerged) IN
         [L |-> cp.L, err |-> Wrap(cp.err)]

\* defaultRepositoryImpl.cherryPickMergeCommit
cherryPickMergeCommit(L, repoOpts, branch, commitSHA, parent, env) ==
    LET cp == RunCherryPick(L, <<"cherry-pick", "-m", ToString(parent), commitSHA>>,
                            <<commitSHA>>, env.applied, env.unmerged) IN
    [L |-> cp.L, err |-> Wrap(cp.err)]

\* The entries `git status --porcelain` prints for a working tree, and its
\* raw output: one line per entry, each ended by a newline.
StatusLines(w) == IF w.unmerged THEN <<"UU a.go", "M  b.go">> ELSE <<"M  b.go", "A  c.go">>
RECURSIVE RawStatus(_)
RawStatus(lines) ==
    IF lines = <<>> THEN "" ELSE Head(lines) \o "\n" \o RawStatus(Tail(lines))

\* strings.Split(s, "\n")
RECURSIVE SplitFrom(_, _, _)
SplitFrom(s, start, i) ==
    IF i > Len(s) THEN <<SubSeq(s, start, Len(s))>>
    ELSE IF SubSeq(s, i, i) = "\n"
         THEN <<SubSeq(s, start, i - 1)>> \o SplitFrom(s, i + 1, i + 1)
    ELSE SplitFrom(s, start, i + 1)
Split(s) == SplitFrom(s, 1, 1)

\* strings.HasPrefix(line, "U")
HasPrefixU(line) == Len(line) >= 1 /\ SubSeq(line, 1, 1) = "U"

\* A variant of the conflict test that looks at the first line only.
hasMergeConflictsFirstLine(status) == HasPrefixU(Split(status)[1])

\* defaultRepositoryImpl.hasMergeConflicts on the raw status
hasMergeConflicts(status) ==
    \E i \in 1..Len(Split(status)) : HasPrefixU(Split(status)[i])

\* Repository.HasMergeConflicts on the output of statusRaw, if it succeeds
HasMergeConflictsOf(status, statusOK) ==
    IF ~statusOK THEN [conflicts |-> FALSE, err |-> Wrap("error")]
    ELSE [conflicts |-> hasMergeConflicts(status), err |-> "nil"]

\* Repository.HasMergeConflicts: git status --porcelain, then hasMergeConflicts
HasMergeConflicts(L, statusOK) ==
    LET L1 == Logged(L, GitCmd(L, <<"status", "--porcelain">>))
        r == HasMergeConflictsOf(RawStatus(StatusLines(L.wt)), statusOK) IN
    [L |-> L1, conflicts |-> r.conflicts, err |-> r.err]

\* defaultRepositoryImpl.pushBranch
pushBranch(L, repoOpts, branch, remote, cmdOK) ==
    LET r == IF remote = "" THEN repoOpts.DefaultRemote ELSE remote
        L1 == Logged(L, GitCmd(L, <<"push", r, branch>>)) IN
    [L |-> L1, err |-> IF cmdOK THEN "nil" ELSE "error"]

\* defaultRepositoryImpl.addRemote
addRemote(L, name, url, cmdOK) ==
    LET L1 == Logged(L, GitCmd(L, <<"remote", "add", name, url>>)) IN
    [L |-> L1, err |-> IF cmdOK THEN "nil" ELSE "error"]

\* git.GitHubURL
GitHubURL(repoOwner, repoName) == "git@github.com:" \o repoOwner \o "/" \o repoName

(***************************************************************************)
(* defaultCPImplementation (pkg/cherrypicker).                             *)
(***************************************************************************)
Local == [wt |-> wt, ops |-> ops]

\* defaultCPImplementation.cherrypickCommits
cpCherrypickCommits(L, repoOpts, commits, branch, env) ==
    LET cp == cherryPickCommits(L, repoOpts, commits, branch, env) IN
    IF cp.err # "nil" THEN [L |-> cp.L, err |-> Wrap(cp.err)]
    ELSE LET hc == HasMergeConflicts(cp.L, env.statusOK) IN
         IF hc.err # "nil" THEN [L |-> hc.L, err |-> Wrap(hc.err)]
         ELSE IF hc.conflicts THEN [L |-> hc.L, err |-> Wrap(hc.err)]
         ELSE [L |-> hc.L, err |-> "nil"]

\* defaultCPImplementation.cherrypickMergeCommit
cpCherrypickMergeCommit(L, repoOpts, branch, commit, parent, env) ==
    LET cp == cherryPickMergeCommit(L, repoOpts, branch, commit, parent, env) IN
    IF cp.err # "nil" THEN [L |-> cp.L, err |-> Wrap(cp.err)]
    ELSE LET hc == HasMergeConflicts(cp.L, env.statusOK) IN
         IF hc.err # "nil" THEN [L |-> hc.L, err |-> Wrap(hc.err)]
         ELSE IF hc.conflicts THEN [L |-> hc.L, err |-> Wrap(hc.err)]
         ELSE [L |-> hc.L, err |-> "nil"]

\* defaultCPImplementation.createBranch
BranchName(number, unixTime) ==
    newBranchSlug \o ToString(number) \o "-" \o ToString(unixTime)

cpCreateBranch(L, sourceBranch, number, unixTime, env) ==
    LET branchName == BranchName(number, unixTime)
        co == checkout(L, sourceBranch, env.checkoutOK) IN
    IF co.err # "nil" THEN [L |-> co.L, name |-> "", err |-> Wrap(co.err)]
    ELSE LET cb == createBranch(co.L, branchName, env.branchOK) IN
         IF cb.err # "nil" THEN [L |-> cb.L, name |-> "", err |-> Wrap(cb.err)]
         ELSE [L |-> cb.L, name |-> branchName, err |-> "nil"]

\* A variant of the push step that tries a second time when the push fails.
cpPushFeatureBranchRetrying(L, repoOpts, o, featureBranch, cmdOK) ==
    LET remote == IF o.Remote = "" THEN defaultRemote ELSE o.Remote
        pb == pushBranch(L, repoOpts, featureBranch, remote, cmdOK)
        again == pushBranch(pb.L, repoOpts, featureBranch, remote, TRUE) IN
    IF pb.err = "nil" THEN [L |-> pb.L, err |-> "nil"]
    ELSE [L |-> again.L, err |-> Wrap(again.err)]

\* defaultCPImplementation.pushFeatureBranch
cpPushFeatureBranch(L, repoOpts, o, featureBranch, cmdOK) ==
    LET remote == IF o.Remote = "" THEN defaultRemote ELSE o.Remote
        pb == pushBranch(L, repoOpts, featureBranch, remote, cmdOK) IN
    [L |-> pb.L, err |-> Wrap(pb.err)]

\* defaultCPImplementation.createPullRequest(ctx, ghrepo, baseBranch, headBranch, originalPR)
PRTitle(number, baseBranch) ==
    "Automated cherry pick of #" \o ToString(number) \o " on " \o baseBranch

cpCreatePullRequest(baseBranch, headBranch, originalPR) ==
    RepositoryCreatePullRequest(baseBranch, headBranch,
                                PRTitle(originalPR.Number, baseBranch))

\* defaultCPImplementation.cherryPickRebasedPR
cpCherryPickRebasedPR(L, repoOpts, branch, env) ==
    LET rebaseCommits == GetRebaseCommits IN
    IF rebaseCommits.status = "panic" THEN [L |-> L, err |-> "panic"]
    ELSE IF rebaseCommits.status # "ok" THEN [L |-> L, err |-> "error"]
    ELSE IF Len(rebaseCommits.val) = 0 THEN [L |-> L, err |-> "error"]
    ELSE LET cp == cpCherrypickCommits(L, repoOpts, rebaseCommits.val, branch, env) IN
         [L |-> cp.L, err |-> Wrap(cp.err)]

(***************************************************************************)
(* CherryPicker.CreateCherryPickPRWithContext, one action per step.        *)
(***************************************************************************)
NoGateway == [commits |-> <<>>, prCommits |-> <<>>, repoOK |-> FALSE]
NoPR == [Number |-> 0, MergeCommitSHA |-> "", Username |-> ""]
TmpDir == "/tmp/git-repo-tmpclone-1"

InitialTree(marker) ==
    [head |-> "main",
     tips |-> [b \in {"main", TargetBranch} |-> <<>>],
     unmerged |-> FALSE,
     marker |-> marker]

NoRun == [mergeMode |-> "", featureBranch |-> "", ret |-> "running"]

IdleRun ==
    /\ pc = "idle"
    /\ opts = [RepoPath |-> "", ForkOwner |-> "", Remote |-> ""]
    /\ state = [repo |-> FALSE, MergeStrategy |-> "", DefaultRemote |-> "origin"]
    /\ wt = InitialTree(FALSE)
    /\ ops = <<>>
    /\ run = NoRun

InitRun ==
    /\ pc = "init"
    /\ opts \in [RepoPath : {"", "/src/repo"}, ForkOwner : {"", "forkowner"},
                 Remote : {"", "upstream"}]
    /\ state = [repo |-> FALSE, MergeStrategy |-> "", DefaultRemote |-> "origin"]
    /\ wt \in {InitialTree(m) : m \in IF opts.RepoPath = "" THEN {FALSE} ELSE BOOLEAN}
    /\ ops = <<>>
    /\ run = NoRun

Fail(L) ==
    /\ pc' = "failed"
    /\ run' = [run EXCEPT !.ret = "error"]
    /\ wt' = L.wt
    /\ ops' = L.ops

Crash(L) ==
    /\ pc' = "panicked"
    /\ run' = [run EXCEPT !.ret = "panic"]
    /\ wt' = L.wt
    /\ ops' = L.ops

\* A marker test that never sees the marker.
ExistsNever(tree) == FALSE

\* util.Exists(filepath.Join(opts.RepoPath, rebaseMagic)) on the working tree
Exists(tree) == tree.marker

\* defaultCPImplementation.initialize, and the return of the run on its error
Initialize ==
    /\ pc = "init"
    /\ \E mkdirOK \in BOOLEAN, repoOK \in BOOLEAN, remoteOK \in BOOLEAN :
        IF opts.RepoPath = ""
        THEN IF ~mkdirOK
             THEN \* MkdirTemp failed with err2; the named result err is still nil
                  IF Wrap("nil") = "nil"
                  THEN /\ pc' = "fetch"
                       /\ UNCHANGED <<opts, state, wt, ops, run>>
                  ELSE /\ UNCHANGED <<opts, state>>
                       /\ Fail(Local)
             ELSE LET o1 == [opts EXCEPT !.RepoPath = TmpDir]
                      cloned == Logged([wt |-> InitialTree(FALSE), ops |-> ops],
                                  [kind |-> "gogit", head |-> "",
                                   args |-> <<"clone", GitHubURL(RepoOwner, RepoName), TmpDir>>])
                      o2 == IF o1.Remote = "" THEN [o1 EXCEPT !.Remote = "user-fork"] ELSE o1
                      ar == addRemote(cloned, o2.Remote,
                                      GitHubURL(o2.ForkOwner, RepoName), remoteOK)
                  IN IF ~repoOK
                     THEN /\ opts' = o1
                          /\ UNCHANGED state
                          /\ Fail([wt |-> wt, ops |-> cloned.ops])
                     ELSE IF ar.err # "nil"
                     THEN /\ opts' = o2
                          /\ UNCHANGED state
                          /\ Fail(ar.L)
                     ELSE /\ opts' = o2
                          /\ state' = [state EXCEPT !.repo = TRUE,
                                                    !.MergeStrategy = "recursive-theirs"]
                          /\ wt' = ar.L.wt
                          /\ ops' = ar.L.ops
                          /\ pc' = "fetch"
                          /\ UNCHANGED run
        ELSE IF ~repoOK
             THEN /\ UNCHANGED <<opts, state>>
                  /\ Fail(Local)
             ELSE IF Exists(wt)
             THEN /\ state' = [state EXCEPT !.MergeStrategy = "recursive-theirs"]
                  /\ UNCHANGED opts
                  /\ Fail(Local)
             ELSE /\ state' = [state EXCEPT !.repo = TRUE,
                                            !.MergeStrategy = "recursive-theirs"]
                  /\ pc' = "fetch"
                  /\ UNCHANGED <<opts, wt, ops, run>>
    /\ UNCHANGED <<worldVars, call>>

\* defaultCPImplementation.getPullRequest: the platform answers, or fails
GetPullRequest ==
    /\ pc = "fetch"
    /\ \E fetched \in BOOLEAN :
        IF fetched
        THEN /\ IsWorld(gh', pr')
             /\ pc' = "classify"
             /\ UNCHANGED <<wt, ops, run>>
        ELSE /\ UNCHANGED worldVars
             /\ Fail(Local)
    /\ UNCHANGED <<call, opts, state>>

\* defaultCPImplementation.getMergeMode
ClassifyMergeMode ==
    /\ pc = "classify"
    /\ LET r == GetMergeMode IN
       IF r.status = "ok"
       THEN /\ run' = [run EXCEPT !.mergeMode = r.val]
            /\ pc' = "branch"
            /\ UNCHANGED <<wt, ops>>
       ELSE IF r.status = "panic" THEN Crash(Local) ELSE Fail(Local)
    /\ UNCHANGED <<worldVars, call, opts, state>>

\* defaultCPImplementation.createBranch
CreateBranch ==
    /\ pc = "branch"
    /\ \E checkoutOK \in BOOLEAN, branchOK \in BOOLEAN :
        IF ~state.repo THEN Crash(Local)
        ELSE LET cb == cpCreateBranch(Local, TargetBranch, pr.Number, 0,
                                      [checkoutOK |-> checkoutOK, branchOK |-> branchOK])
             IN IF cb.err # "nil" THEN Fail(cb.L)
                ELSE /\ run' = [run EXCEPT !.featureBranch = cb.name]
                     /\ wt' = cb.L.wt
                     /\ ops' = cb.L.ops
                     /\ pc' = "replay"
    /\ UNCHANGED <<worldVars, call, opts, state>>

Envs(n) ==
    [checkoutOK : BOOLEAN, applied : 0..n, unmerged : BOOLEAN, statusOK : BOOLEAN]

Replayed(r) ==
    IF r.err = "panic" THEN Crash(r.L)
    ELSE IF r.err # "nil" THEN Fail(r.L)
    ELSE /\ wt' = r.L.wt
         /\ ops' = r.L.ops
         /\ pc' = "push"
         /\ UNCHANGED run

\* A squash replay that picks the head commits of the PR instead.
CherryPickSquashedHeadCommits ==
    /\ pc = "replay"
    /\ run.mergeMode = MMSQUASH
    /\ \E env \in Envs(Len(gh.prCommits)) :
        Replayed(cpCherrypickCommits(Local, state, gh.prCommits,
                                     run.featureBranch, env))
    /\ UNCHANGED <<worldVars, call, opts, state>>

\* case github.MMSQUASH
CherryPickSquashed ==
    /\ pc = "replay"
    /\ run.mergeMode = MMSQUASH
    /\ \E env \in Envs(1) :
        Replayed(cpCherrypickCommits(Local, state, <<pr.MergeCommitSHA>>,
                                     run.featureBranch, env))
    /\ UNCHANGED <<worldVars, call, opts, state>>

\* case github.MMMERGE
CherryPickMerge ==
    /\ pc = "replay"
    /\ run.mergeMode = MMMERGE
    /\ \E env \in Envs(1) :
        LET parent == PatchTreeID IN
        IF parent.status # "ok" THEN Fail(Local)
        ELSE Replayed(cpCherrypickMergeCommit(Local, state, run.featureBranch,
                                              pr.MergeCommitSHA, parent.val, env))
    /\ UNCHANGED <<worldVars, call, opts, state>>

\* case github.MMREBASE
CherryPickRebased ==
    /\ pc = "replay"
    /\ run.mergeMode = MMREBASE
    /\ \E env \in Envs(MaxHead) :
        /\ env.applied <= Len(gh.prCommits)
        /\ Replayed(cpCherryPickRebasedPR(Local, state, run.featureBranch, env))
    /\ UNCHANGED <<worldVars, call, opts, state>>

\* defaultCPImplementation.pushFeatureBranch
PushFeatureBranch ==
    /\ pc = "push"
    /\ \E cmdOK \in BOOLEAN :
        LET pb == cpPushFeatureBranch(Local, state, opts, run.featureBranch, cmdOK) IN
        IF pb.err # "nil" THEN Fail(pb.L)
        ELSE /\ wt' = pb.L.wt
             /\ ops' = pb.L.ops
             /\ pc' = "openpr"
             /\ UNCHANGED run
    /\ UNCHANGED <<worldVars, call, opts, state>>

\* defaultCPImplementation.createPullRequest, and the return of the run
CreatePullRequest ==
    /\ pc = "openpr"
    /\ \E created \in BOOLEAN :
        LET headBranch == IF opts.ForkOwner # ""
                          THEN opts.ForkOwner \o ":" \o run.featureBranch
                          ELSE run.featureBranch
            request == cpCreatePullRequest(TargetBranch, headBranch, pr)
        IN /\ ops' = Append(ops, request)
           /\ wt' = wt
           /\ IF created
              THEN /\ pc' = "done"
                   /\ run' = [run EXCEPT !.ret = "nil"]
              ELSE /\ pc' = "failed"
                   /\ run' = [run EXCEPT !.ret = "error"]
    /\ UNCHANGED <<worldVars, call, opts, state>>

(***************************************************************************)
(* Build configuration (pkg/build): variables of the YAML document.        *)
(* A document is the sequence of the pieces of its values (literal text    *)
(* and variable references) and its env section.                           *)
(***************************************************************************)
MaxPieces == 2
MaxEnv == 2
ConfigVars == {"BUCKET", "COMMIT_SHA"}
\* fmt.Sprintf("${%s}", vr)
VarRef(v) == "${" \o v \o "}"
Pieces == {"s3://", "${bucket}"} \cup {VarRef(v) : v \in ConfigVars}
EnvConfigs == [Var : ConfigVars, Value : {"", "release"}]
Docs ==
    [nil : {FALSE},
     body : UNION {[1..n -> Pieces] : n \in 0..MaxPieces},
     env : UNION {[1..n -> EnvConfigs] : n \in 0..MaxEnv}]
NilData == [nil |-> TRUE, body |-> <<>>, env |-> <<>>]
\* The system environment: os.Getenv gives "" for a variable that is not set
Environs == [ConfigVars -> {"", "fromsystem"}]
NoEnviron == [v \in ConfigVars |-> ""]

\* varRegexp, on one piece
Matches(piece, v) == piece = VarRef(v)

\* extractConfigVariables: the names the document refers to; the list is
\* built from a map, in any order
extractConfigVariables(yamlData) ==
    {v \in ConfigVars : \E i \in DOMAIN yamlData.body : Matches(yamlData.body[i], v)}

\* parseConf: yaml.Unmarshal of nil data gives the empty configuration
parseConf(yamlData, yamlOK) ==
    IF yamlData.nil THEN [conf |-> [Env |-> <<>>, Transfers |-> <<>>], err |-> "nil"]
    ELSE IF ~yamlOK THEN [conf |-> [Env |-> <<>>, Transfers |-> <<>>], err |-> Wrap("error")]
    ELSE [conf |-> [Env |-> yamlData.env, Transfers |-> yamlData.body], err |-> "nil"]

\* the inner loop of replaceVariables: the value of the first env entry
\* named yamlVariable, "" when there is none
RECURSIVE predefined(_, _)
predefined(env, yamlVariable) ==
    IF env = <<>> THEN ""
    ELSE IF Head(env).Var = yamlVariable THEN Head(env).Value
    ELSE predefined(Tail(env), yamlVariable)

\* the outer loop of replaceVariables over the variables of the document;
\* err is the error variable of the function at that point
RECURSIVE valuesLoop(_, _, _, _, _)
valuesLoop(varList, c, environ, err, valueVals) ==
    IF varList = <<>> THEN [vals |-> valueVals, err |-> "nil", done |-> TRUE]
    ELSE LET yamlVariable == Head(varList)
             v1 == predefined(c.Env, yamlVariable) IN
         IF v1 # ""
         THEN valuesLoop(Tail(varList), c, environ, err,
                         [valueVals EXCEPT ![yamlVariable] = v1])
         ELSE IF environ[yamlVariable] # ""
         THEN valuesLoop(Tail(varList), c, environ, err,
                         [valueVals EXCEPT ![yamlVariable] = environ[yamlVariable]])
         ELSE [vals |-> valueVals, err |-> Wrap(err), done |-> FALSE]

\* bytes.ReplaceAll for every variable that has a value
ReplaceAll(yamlData, varList, valueVals) ==
    [yamlData EXCEPT !.body =
        [i \in DOMAIN yamlData.body |->
            IF \E v \in varList : Matches(yamlData.body[i], v)
            THEN valueVals[CHOOSE v \in varList : Matches(yamlData.body[i], v)]
            ELSE yamlData.body[i]]]

\* replaceVariables; varList (vars in the code) is the list extractConfigVariables returned
replaceVariables(yamlData, varList, environ, yamlOK) ==
    IF Len(varList) = 0 THEN [data |-> yamlData, err |-> "nil"]
    ELSE LET c == parseConf(yamlData, yamlOK) IN
         IF c.err # "nil" THEN [data |-> NilData, err |-> Wrap(c.err)]
         ELSE LET r == valuesLoop(varList, c.conf, environ, c.err, NoEnviron) IN
              IF ~r.done THEN [data |-> NilData, err |-> r.err]
              ELSE [data |-> ReplaceAll(yamlData, {varList[i] : i \in DOMAIN varList}, r.vals),
                    err |-> "nil"]

\* LoadConfig
LoadConfig(yamlData, varList, environ, readOK, yamlOK, replacedOK) ==
    IF ~readOK THEN [conf |-> [Env |-> <<>>, Transfers |-> <<>>], err |-> Wrap("error")]
    ELSE LET r == replaceVariables(yamlData, varList, environ, yamlOK) IN
         IF r.err # "nil" THEN [conf |-> [Env |-> <<>>, Transfers |-> <<>>], err |-> Wrap(r.err)]
         ELSE LET c == parseConf(r.data, replacedOK) IN
              IF c.err # "nil"
              THEN [conf |-> [Env |-> <<>>, Transfers |-> <<>>], err |-> Wrap(c.err)]
              ELSE [conf |-> c.conf, err |-> "nil"]

\* The orders a list built from a map may have
Orders(S) == {q \in [1..Cardinality(S) -> S] : \A v \in S : \E i \in DOMAIN q : q[i] = v}

(***************************************************************************)
(* Handles on local repositories (pkg/git). The options of a handle are a  *)
(* pointer to a RepoOptions object; heap maps the pointers to the objects. *)
(***************************************************************************)
MaxHandles == 2
MaxCommands == 2
RepoPaths == {"/src/a", "/src/b"}
MergeStrategies == {"recursive-theirs", "recursive-ours"}
\* var defaultRepositoryOptions = &RepoOptions{DefaultRemote: "origin"}
defaultRepositoryOptions == "defaultRepositoryOptions"
InitialHeap ==
    [p \in {defaultRepositoryOptions} |->
        [Path |-> "", DefaultRemote |-> defaultRemote, MergeStrategy |-> ""]]

NewRepositoryWithOptions(o) == [opts |-> o, client |-> ""]
SetClient(repo, c) == [repo EXCEPT !.client = c]

\* defaultGitImpl.openRepo: opts := defaultRepositoryOptions copies the
\* pointer, opts.Path = path writes through it
openRepo(heap, path, openOK) ==
    IF ~openOK
    THEN [heap |-> heap, repo |-> NewRepositoryWithOptions(""), err |-> Wrap("error")]
    ELSE LET o == defaultRepositoryOptions IN
         [heap |-> [heap EXCEPT ![o].Path = path],
          repo |-> SetClient(NewRepositoryWithOptions(o), path),
          err |-> "nil"]

\* defaultGitImpl.cloneRepo
cloneRepo(heap, url, path, cloneOK) ==
    IF ~cloneOK
    THEN [heap |-> heap, repo |-> NewRepositoryWithOptions(""), err |-> Wrap("error")]
    ELSE LET o == defaultRepositoryOptions IN
         [heap |-> [heap EXCEPT ![o].Path = path],
          repo |-> SetClient(NewRepositoryWithOptions(o), path),
          err |-> "nil"]

\* The git command Repository.CherryPickCommits runs: its working
\* directory (command.NewWithWorkDir(opts.Path, ...)) and its arguments
CherryPickCommand(heap, repo, commits) ==
    [dir |-> heap[repo.opts].Path,
     args |-> <<"cherry-pick">> \o StrategyArgs(heap[repo.opts].MergeStrategy) \o commits]

(***************************************************************************)
(* Direct callers of the PullRequest methods (as the unit tests are).      *)
(***************************************************************************)
NoCall ==
    [fn |-> "none", status |-> "none", mode |-> "", parentNr |-> 0, shas |-> <<>>,
     files |-> <<>>, shuffled |-> <<>>, tree |-> "", shuffledTree |-> "",
     lines |-> <<>>, conflicts |-> FALSE,
     now |-> 0, branches |-> <<>>,
     doc |-> NilData, environ |-> NoEnviron, data |-> NilData, transfers |-> <<>>,
     commits |-> <<>>,
     heap |-> InitialHeap, handles |-> <<>>, ran |-> <<>>]

CallGetMergeMode ==
    /\ call.fn = "none"
    /\ call' = [NoCall EXCEPT !.fn = "GetMergeMode",
                              !.status = GetMergeMode.status,
                              !.mode = GetMergeMode.val]
    /\ UNCHANGED <<worldVars, runVars>>

CallPatchTreeID ==
    /\ call.fn = "none"
    /\ call' = [NoCall EXCEPT !.fn = "PatchTreeID",
                              !.status = PatchTreeID.status,
                              !.parentNr = PatchTreeID.val]
    /\ UNCHANGED <<worldVars, runVars>>

CallGetRebaseCommits ==
    /\ call.fn = "none"
    /\ call' = [NoCall EXCEPT !.fn = "GetRebaseCommits",
                              !.status = GetRebaseCommits.status,
                              !.shas = GetRebaseCommits.val]
    /\ UNCHANGED <<worldVars, runVars>>

\* defaultPRImplementation.getRebaseCommits called on its own
SHAsOf(commits) == [i \in 1..Len(commits) |-> commits[i].SHA]
CallImplGetRebaseCommits ==
    /\ call.fn = "none"
    /\ call' = [NoCall EXCEPT !.fn = "getRebaseCommits",
                              !.status = implGetRebaseCommits.status,
                              !.shas = SHAsOf(implGetRebaseCommits.val)]
    /\ UNCHANGED <<worldVars, runVars>>

\* Commit.ChangeTree called on a list of changed files and on the same
\* files listed in another order.
FileC == [Filename |-> "c.go", SHA |-> "blob3"]
FileD == [Filename |-> "d.go", SHA |-> "blob1"]
ChangedFiles == {FileA, FileB, FileC, FileD}
ChangedFileLists ==
    UNION {{f \in [1..n -> ChangedFiles] :
                \A i, j \in 1..n : i # j => f[i] # f[j]} : n \in 0..MaxFiles}
IsPermutation(a, b) ==
    /\ Len(a) = Len(b)
    /\ {a[i] : i \in 1..Len(a)} = {b[i] : i \in 1..Len(b)}

CallChangeTree ==
    /\ call.fn = "none"
    /\ \E files \in ChangedFileLists :
       \E shuffled \in ChangedFileLists :
          /\ IsPermutation(files, shuffled)
          /\ call' = [NoCall EXCEPT !.fn = "ChangeTree",
                                    !.status = "ok",
                                    !.files = files,
                                    !.shuffled = shuffled,
                                    !.tree = ChangeTree(files),
                                    !.shuffledTree = ChangeTree(shuffled)]
    /\ UNCHANGED <<worldVars, runVars>>

\* Repository.HasMergeConflicts called on a working tree in any state.
UnmergedLines == {"UU a.go", "UD e.go"}
OtherLines == {"M  b.go", "A  c.go", "AU d.go", "?? U.txt"}
PorcelainLines == UnmergedLines \cup OtherLines
PorcelainOutputs == UNION {[1..n -> PorcelainLines] : n \in 0..MaxLines}

CallHasMergeConflicts ==
    /\ call.fn = "none"
    /\ \E statusOK \in BOOLEAN :
       \E lines \in (IF statusOK THEN PorcelainOutputs ELSE {<<>>}) :
          LET r == HasMergeConflictsOf(RawStatus(lines), statusOK) IN
          call' = [NoCall EXCEPT !.fn = "HasMergeConflicts",
                                 !.status = IF r.err = "nil" THEN "ok" ELSE "error",
                                 !.lines = lines,
                                 !.conflicts = r.conflicts]
    /\ UNCHANGED <<worldVars, runVars>>

\* Repeated runs of CreateCherryPickPR reaching createBranch. Each run reads
\* the wall clock (time.Now().Unix(), whole seconds, never running
\* backwards), works in the existing local clone or in a clone of its own,
\* and obtains the branch name createBranch returns.
MaxRuns == 2
MaxUnixTime == 2
PRNumbers == {100, 101}

CallCreateBranch ==
    /\ Len(call.branches) < MaxRuns
    /\ \E number \in PRNumbers, now \in call.now..MaxUnixTime, ownClone \in BOOLEAN,
          checkoutOK \in BOOLEAN, branchOK \in BOOLEAN :
          LET tree == IF ownClone THEN InitialTree(FALSE) ELSE wt
              cb == cpCreateBranch([wt |-> tree, ops |-> <<>>], TargetBranch, number, now,
                                   [checkoutOK |-> checkoutOK, branchOK |-> branchOK])
          IN /\ call' = [NoCall EXCEPT
                          !.fn = "createBranch",
                          !.status = IF cb.err = "nil" THEN "ok" ELSE "error",
                          !.now = now,
                          !.branches = IF cb.err = "nil"
                                       THEN Append(call.branches,
                                                   [number |-> number, name |-> cb.name,
                                                    ownClone |-> ownClone])
                                       ELSE call.branches]
             /\ wt' = IF ownClone THEN wt ELSE cb.L.wt
             /\ ops' = cb.L.ops
    /\ UNCHANGED <<worldVars, pc, opts, state, run>>

\* defaultPRImplementation.getMergeMode called on its own with a list of
\* commits fetched beforehand
CallImplGetMergeMode ==
    /\ call.fn = "none"
    /\ \E n \in 0..MaxHead :
       \E hf \in [1..n -> FileLists] :
          LET commits == [i \in 1..n |-> HeadCommit(i, n, hf[i])]
              r == implGetMergeMode(commits) IN
          call' = [NoCall EXCEPT !.fn = "getMergeMode",
                                 !.status = r.status,
                                 !.mode = r.val,
                                 !.commits = commits]
    /\ UNCHANGED <<worldVars, runVars>>

\* A program holding several handles: call.handles lists them with the
\* path each was obtained for and the merge strategy set through it,
\* call.ran the commands they ran.
Obtained(r, path, fn) ==
    /\ call' = [call EXCEPT
                    !.fn = fn,
                    !.status = IF r.err = "nil" THEN "ok" ELSE "error",
                    !.heap = r.heap,
                    !.handles = IF r.err = "nil"
                                THEN Append(@, [repo |-> r.repo, path |-> path,
                                                strategy |-> ""])
                                ELSE @]
    /\ UNCHANGED <<worldVars, runVars>>

\* Git.OpenRepo
CallOpenRepo ==
    /\ Len(call.handles) < MaxHandles
    /\ \E path \in RepoPaths, openOK \in BOOLEAN :
          Obtained(openRepo(call.heap, path, openOK), path, "OpenRepo")

\* Git.CloneRepo
CallCloneRepo ==
    /\ Len(call.handles) < MaxHandles
    /\ \E path \in RepoPaths, cloneOK \in BOOLEAN :
          Obtained(cloneRepo(call.heap, GitHubURL(RepoOwner, RepoName), path, cloneOK),
                   path, "CloneRepo")

\* repo.Options().MergeStrategy = strategy, as initialize does
CallSetMergeStrategy ==
    /\ \E h \in DOMAIN call.handles, strategy \in MergeStrategies :
          call' = [call EXCEPT
                      !.fn = "Options",
                      !.status = "ok",
                      !.heap[call.handles[h].repo.opts].MergeStrategy = strategy,
                      !.handles[h].strategy = strategy]
    /\ UNCHANGED <<worldVars, runVars>>

\* Repository.CherryPickCommits through one of the handles
CallCherryPickCommits ==
    /\ Len(call.ran) < MaxCommands
    /\ \E h \in DOMAIN call.handles :
          call' = [call EXCEPT
                      !.fn = "CherryPickCommits",
                      !.status = "ok",
                      !.ran = Append(@, [handle |-> h,
                                         own |-> call.handles[h].strategy,
                                         cmd |-> CherryPickCommand(call.heap,
                                                     call.handles[h].repo,
                                                     <<BranchSHA(1)>>)])]
    /\ UNCHANGED <<worldVars, runVars>>

CallReplaceVariables ==
    /\ call.fn = "none"
    /\ \E yamlData \in Docs, environ \in Environs, yamlOK \in BOOLEAN :
        \E varList \in Orders(extractConfigVariables(yamlData)) :
          LET r == replaceVariables(yamlData, varList, environ, yamlOK) IN
          call' = [NoCall EXCEPT !.fn = "replaceVariables",
                                 !.status = IF r.err = "nil" THEN "ok" ELSE "error",
                                 !.doc = yamlData,
                                 !.environ = environ,
                                 !.data = r.data]
    /\ UNCHANGED <<worldVars, runVars>>

CallLoadConfig ==
    /\ call.fn = "none"
    /\ \E yamlData \in Docs, environ \in Environs, readOK \in BOOLEAN,
          yamlOK \in BOOLEAN, replacedOK \in BOOLEAN :
        \E varList \in Orders(extractConfigVariables(yamlData)) :
          LET r == LoadConfig(yamlData, varList, environ, readOK, yamlOK, replacedOK) IN
          call' = [NoCall EXCEPT !.fn = "LoadConfig",
                                 !.status = IF r.err = "nil" THEN "ok" ELSE "error",
                                 !.doc = IF readOK THEN yamlData ELSE NilData,
                                 !.environ = environ,
                                 !.transfers = r.conf.Transfers]
    /\ UNCHANGED <<worldVars, runVars>>

InitPR ==
    /\ IsWorld(gh, pr)
    /\ call = NoCall
    /\ IdleRun

NextPR ==
    \/ CallGetMergeMode
    \/ CallPatchTreeID
    \/ CallGetRebaseCommits
    \/ CallImplGetRebaseCommits

SpecPR == InitPR /\ [][NextPR]_vars

InitCT ==
    /\ gh = NoGateway
    /\ pr = NoPR
    /\ call = NoCall
    /\ IdleRun

NextCT == CallChangeTree

SpecCT == InitCT /\ [][NextCT]_vars

InitST ==
    /\ gh = NoGateway
    /\ pr = NoPR
    /\ call = NoCall
    /\ IdleRun

NextST == CallHasMergeConflicts

SpecST == InitST /\ [][NextST]_vars

\* The pull requests getMergeMode is called for: a merge commit with no,
\* one or two parents, which may not be fetchable.
InitMM ==
    /\ \E cf \in [1..1 -> BranchFileLists], tail \in {"root", "gone"},
          second \in BOOLEAN, fault \in Faults :
          /\ gh = Gateway(0, <<>>, 1, cf, tail, second, "t0", "t0", fault[1])
          /\ pr = [Number |-> 100, MergeCommitSHA |-> fault[2], Username |-> "author"]
    /\ call = NoCall
    /\ IdleRun

NextMM == CallImplGetMergeMode

SpecMM == InitMM /\ [][NextMM]_vars

InitGit ==
    /\ gh = NoGateway
    /\ pr = NoPR
    /\ call = NoCall
    /\ IdleRun

NextGit ==
    \/ CallOpenRepo
    \/ CallCloneRepo
    \/ CallSetMergeStrategy
    \/ CallCherryPickCommits

SpecGit == InitGit /\ [][NextGit]_vars

InitCfg ==
    /\ gh = NoGateway
    /\ pr = NoPR
    /\ call = NoCall
    /\ IdleRun

NextCfg ==
    \/ CallReplaceVariables
    \/ CallLoadConfig

SpecCfg == InitCfg /\ [][NextCfg]_vars

InitBR ==
    /\ gh = NoGateway
    /\ pr = NoPR
    /\ call = NoCall
    /\ IdleRun

NextBR == CallCreateBranch

SpecBR == InitBR /\ [][NextBR]_vars

(***************************************************************************)
(* One run of CreateCherryPickPR.                                          *)
(***************************************************************************)
Init ==
    /\ gh = NoGateway
    /\ pr = NoPR
    /\ call = NoCall
    /\ InitRun

Next ==
    \/ Initialize
    \/ GetPullRequest
    \/ ClassifyMergeMode
    \/ CreateBranch
    \/ CherryPickSquashed
    \/ CherryPickMerge
    \/ CherryPickRebased
    \/ PushFeatureBranch
    \/ CreatePullRequest

Spec == Init /\ [][Next]_vars

(***************************************************************************)
(* Properties of one run.                                                  *)
(***************************************************************************)
IsCherryPick(op) == op.kind = "git" /\ op.args[1] = "cherry-pick"
IsPush(op) == op.kind = "git" /\ op.args[1] = "push"
IsCreatePR(op) == op.kind = "api" /\ op.args[1] = "create-pr"
Executed(Is(_)) == \E i \in DOMAIN ops : Is(ops[i])

\* C1: whenever a cherry-pick step leaves an unmerged ("U") entry in the
\* working tree, the run ends in failure: it returns a non-nil error and
\* neither the push nor the creation of the pull request is executed.
C1_ConflictEndsRun ==
    (Executed(IsCherryPick) /\ hasMergeConflicts(RawStatus(StatusLines(wt))))
        => /\ pc = "failed"
           /\ run.ret = "error"
           /\ ~Executed(IsPush)
           /\ ~Executed(IsCreatePR)

\* The branch commits matching the PR's head commits, oldest first.
OldestFirstBranchSHAs ==
    [j \in 1..Len(gh.prCommits) |-> BranchSHA(Len(gh.prCommits) + 1 - j)]

\* C2: in Rebase mode the commit list handed to the cherry-pick is the
\* reconstructed branch SHAs oldest first: [shaOf(f1), ..., shaOf(fN)].
C2_RebasePicksOldestFirst ==
    \A i \in DOMAIN ops :
        (run.mergeMode = MMREBASE /\ IsCherryPick(ops[i]))
            => ops[i].args = <<"cherry-pick">> \o StrategyArgs(state.MergeStrategy)
                                \o OldestFirstBranchSHAs

\* C3: the pull request opened by a run has the run's feature branch as its
\* head (prefixed with "<ForkOwner>:" when a fork owner is configured) and
\* the caller's target branch as its base.
C3_HeadIsFeatureBaseIsTarget ==
    \A i \in DOMAIN ops :
        IsCreatePR(ops[i])
            => /\ ops[i].args[2] = (IF opts.ForkOwner # ""
                                    THEN opts.ForkOwner \o ":" \o run.featureBranch
                                    ELSE run.featureBranch)
               /\ ops[i].args[3] = TargetBranch

\* C4: in every merge mode each cherry-pick command runs with the run's
\* feature branch checked out, and the run adds no commit to the local
\* target branch.
C4_PicksOnFeatureBranch ==
    /\ \A i \in DOMAIN ops : IsCherryPick(ops[i]) => ops[i].head = run.featureBranch
    /\ wt.tips[TargetBranch] = <<>>

(***************************************************************************)
(* Properties of the classifier and of the patch-tree resolver.            *)
(***************************************************************************)
\* The platform answers: the repository is known and the merge commit exists.
MergeCommitFetched ==
    /\ ~GetRepositoryIsNil
    /\ pr.MergeCommitSHA \in DOMAIN gh.commits
MergeCommit == gh.commits[pr.MergeCommitSHA]
HeadCount == Len(gh.prCommits)
LastHeadCommit == gh.commits[gh.prCommits[HeadCount]]
\* Every commit the first-parent walk over the head commits asks for exists.
WalkFetched == \A j \in 1..(HeadCount + 1) : BranchSHA(j) \in DOMAIN gh.commits
Classified == call.fn = "GetMergeMode"

\* C5: a PR with more than one head commit whose merge commit has exactly
\* one parent and a fingerprint different from the last head commit's is
\* classified Squash.
C5_SquashWhenFingerprintDiffers ==
    (/\ Classified /\ MergeCommitFetched /\ WalkFetched
     /\ HeadCount > 1
     /\ Len(MergeCommit.Parents) = 1
     /\ ChangeTree(MergeCommit.Files) # ChangeTree(LastHeadCommit.Files))
        => (call.status = "ok" /\ call.mode = SQUASH)

\* C6: a PR with at least one head commit whose merge commit has two or
\* more parents is classified Merge, whatever the fingerprints are.
C6_MergeWhenSeveralParents ==
    (/\ Classified /\ MergeCommitFetched /\ WalkFetched
     /\ HeadCount >= 1
     /\ Len(MergeCommit.Parents) >= 2)
        => (call.status = "ok" /\ call.mode = MERGE)

\* C7: a PR with more than one head commit whose merge commit has exactly
\* one parent and the same fingerprint as the last head commit is
\* classified Rebase.
C7_RebaseWhenFingerprintEqual ==
    (/\ Classified /\ MergeCommitFetched /\ WalkFetched
     /\ HeadCount > 1
     /\ Len(MergeCommit.Parents) = 1
     /\ ChangeTree(MergeCommit.Files) = ChangeTree(LastHeadCommit.Files))
        => (call.status = "ok" /\ call.mode = REBASE)

\* C8: a PR with exactly one head commit whose merge commit has exactly one
\* parent is classified Squash, whether the fingerprints match or not.
C8_SquashWhenSingleCommit ==
    (/\ Classified /\ MergeCommitFetched /\ WalkFetched
     /\ HeadCount = 1
     /\ Len(MergeCommit.Parents) = 1)
        => (call.status = "ok" /\ call.mode = SQUASH)

\* C9: for a PR with an empty head commit list GetMergeMode returns an
\* error, whatever the shape of the merge commit, and does not crash.
C9_EmptyHeadListIsError ==
    (Classified /\ MergeCommitFetched /\ HeadCount = 0)
        => call.status = "error"

Resolved == call.fn = "PatchTreeID"
ParentIdx == 0..(Len(MergeCommit.Parents) - 1)
ParentFetched(i) == MergeCommit.Parents[i + 1] \in DOMAIN gh.commits
Parent(i) == gh.commits[MergeCommit.Parents[i + 1]]
ResolverInputs ==
    /\ pr.MergeCommitSHA \in DOMAIN gh.commits
    /\ HeadCount >= 1
FingerprintMatch(i) ==
    /\ ParentFetched(i)
    /\ ChangeTree(Parent(i).Files) = ChangeTree(LastHeadCommit.Files)
TreeMatch(i) ==
    /\ ParentFetched(i)
    /\ Parent(i).TreeSHA = LastHeadCommit.TreeSHA

\* C10 as stated: findPatchTree returns the smallest 0-based index i whose
\* parent has the same fingerprint as the PR's last head commit.
C10_SmallestFingerprintMatch ==
    (Resolved /\ ResolverInputs /\ \A i \in ParentIdx : ParentFetched(i))
        => \A i \in ParentIdx :
              (FingerprintMatch(i) /\ \A j \in ParentIdx : j < i => ~FingerprintMatch(j))
                  => (call.status = "ok" /\ call.parentNr = i)

\* C10: findPatchTree returns the smallest 0-based index i whose parent
\* has the same root tree SHA as the PR's last head commit (every earlier
\* parent being fetched and not matching), and any index it returns is that
\* one; with two parents of which only parent[1] matches it returns 1.
C10_SmallestTreeMatch ==
    (Resolved /\ ResolverInputs)
        => /\ \A i \in ParentIdx :
                (TreeMatch(i) /\ \A j \in ParentIdx :
                                     j < i => (ParentFetched(j) /\ ~TreeMatch(j)))
                    => (call.status = "ok" /\ call.parentNr = i)
           /\ call.status = "ok"
                => /\ call.parentNr \in ParentIdx
                   /\ TreeMatch(call.parentNr)
                   /\ \A j \in ParentIdx : j < call.parentNr => ~TreeMatch(j)

\* Two fetched parents, only parent[1] has the last head commit's tree, and
\* the resolver has answered 1.
C10_SecondParentResolved ==
    /\ Resolved /\ ResolverInputs
    /\ Len(MergeCommit.Parents) = 2
    /\ ParentFetched(0) /\ ~TreeMatch(0)
    /\ TreeMatch(1)
    /\ call.status = "ok" /\ call.parentNr = 1

\* C11: when no parent of the merge commit has the tree of the PR's last
\* head commit, findPatchTree returns an error; index 0 comes with a nil
\* error only when parent 0 itself matches.
C11_NoMatchIsError ==
    Resolved
        => /\ (ResolverInputs /\ \A i \in ParentIdx : ~TreeMatch(i))
                => call.status = "error"
           /\ (call.status = "ok" /\ call.parentNr = 0)
                => (ResolverInputs /\ Len(MergeCommit.Parents) >= 1 /\ TreeMatch(0))

\* Both parents of a merge commit were fetched, neither has the tree of the
\* last head commit, and the resolver has returned an error.
C11_NoParentMatched ==
    /\ Resolved /\ ResolverInputs
    /\ Len(MergeCommit.Parents) = 2
    /\ \A i \in ParentIdx : ParentFetched(i) /\ ~TreeMatch(i)
    /\ call.status = "error"

IsMainlinePick(op) == IsCherryPick(op) /\ op.args[2] = "-m"

\* C12: the parent number given to `git cherry-pick -m` in Merge mode is
\* the resolver's 0-based index plus one, so it is one of 1..N for a merge
\* commit with N parents and never 0.
C12_MainlineIsOneBased ==
    \A i \in DOMAIN ops :
        IsMainlinePick(ops[i])
            => /\ ops[i].args[3] = ToString(PatchTreeID.val + 1)
               /\ ops[i].args[3] \in {ToString(k) : k \in 1..Len(MergeCommit.Parents)}

(***************************************************************************)
(* Properties of the rebase reconstruction.                                *)
(***************************************************************************)
Reconstructed == call.fn \in {"getRebaseCommits", "GetRebaseCommits"}
BranchCommitAt(j) == gh.commits[BranchSHA(j)]
\* The first-parent walk from merge_commit_sha arrives at branch commit j.
OnWalk(j) ==
    /\ pr.MergeCommitSHA = BranchSHA(1)
    /\ \A i \in 1..j :
          /\ BranchSHA(i) \in DOMAIN gh.commits
          /\ i < j => /\ BranchCommitAt(i).Parents # <<>>
                      /\ BranchCommitAt(i).Parents[1] = BranchSHA(i + 1)
\* The head commit that branch commit j has to correspond to.
HeadFor(j) == gh.commits[gh.prCommits[HeadCount + 1 - j]]
FingerprintsAgree(j) ==
    ChangeTree(BranchCommitAt(j).Files) = ChangeTree(HeadFor(j).Files)
\* Branch commit j is the first on the walk whose fingerprint differs.
MismatchAt(j) ==
    /\ j \in 1..HeadCount
    /\ OnWalk(j)
    /\ \A i \in 1..(j - 1) : FingerprintsAgree(i)
    /\ ~FingerprintsAgree(j)

\* C13: when a branch commit on the first-parent walk has a fingerprint
\* different from its head commit's, both getRebaseCommits and
\* PullRequest.GetRebaseCommits return an error and an empty list, never a
\* shortened sequence.
C13_MismatchIsErrorNoList ==
    (Reconstructed /\ \E j \in 1..HeadCount : MismatchAt(j))
        => (call.status = "error" /\ call.shas = <<>>)

\* The first branch commit agreed, the second one differs, and
\* getRebaseCommits has returned an error without any SHA.
C13_SecondCommitMismatched ==
    /\ call.fn = "getRebaseCommits"
    /\ HeadCount >= 2
    /\ MismatchAt(2)
    /\ call.status = "error" /\ call.shas = <<>>

\* The walk arrives at branch commit j, which has no parent, while head
\* commits older than the one for j are still to be matched.
ExhaustedAt(j) ==
    /\ j \in 1..(HeadCount - 1)
    /\ OnWalk(j)
    /\ \A i \in 1..(j - 1) : FingerprintsAgree(i)
    /\ BranchCommitAt(j).Parents = <<>>

\* C14: when the first-parent walk reaches a branch commit without parents
\* before every head commit has been matched, the reconstruction returns an
\* error value; it neither crashes nor returns a sequence.
C14_ExhaustedIsError ==
    (Reconstructed /\ \E j \in 1..HeadCount : ExhaustedAt(j))
        => call.status = "error"

\* C15: with N head commits and N branch commits behind merge_commit_sha
\* that carry the matching fingerprints in reverse order, getRebaseCommits
\* returns exactly the N branch SHAs, oldest first, ending in
\* merge_commit_sha.
C15_ReconstructsBranchSHAs ==
    (/\ call.fn = "getRebaseCommits"
     /\ HeadCount >= 1
     /\ OnWalk(HeadCount)
     /\ \A j \in 1..HeadCount : FingerprintsAgree(j)
     /\ BranchCommitAt(1).Parents # <<>>
     /\ \/ BranchCommitAt(HeadCount).Parents = <<>>
        \/ BranchCommitAt(HeadCount).Parents[1] \in DOMAIN gh.commits)
        => /\ call.status = "ok"
           /\ call.shas = OldestFirstBranchSHAs

(***************************************************************************)
(* Properties of the content fingerprint.                                  *)
(***************************************************************************)
Fingerprinted == call.fn = "ChangeTree"

\* C16: the fingerprint does not depend on the order of the list: a list
\* of changed files and any permutation of it have the same fingerprint.
C16_OrderIndependent ==
    Fingerprinted => call.tree = call.shuffledTree

\* Three files with three different blobs were fingerprinted in two orders
\* that start with different blobs.
C16_ShuffledThreeFiles ==
    /\ Fingerprinted
    /\ Len(call.files) = 3
    /\ Cardinality({call.files[i].SHA : i \in 1..3}) = 3
    /\ call.files[1].SHA # call.shuffled[1].SHA
    /\ call.tree = call.shuffledTree

\* C17: the fingerprint of the empty list is the empty string and the
\* fingerprint of a non-empty list is a non-empty string.
C17_EmptyIffNoFiles ==
    Fingerprinted
        => /\ call.files = <<>> => call.tree = ""
           /\ call.files # <<>> => call.tree # ""

\* The empty list was fingerprinted and gave the empty string.
C17_EmptyListFingerprinted ==
    /\ Fingerprinted
    /\ call.files = <<>>
    /\ call.tree = ""

(***************************************************************************)
(* Properties of the conflict test.                                        *)
(***************************************************************************)
ConflictsTested == call.fn = "HasMergeConflicts" /\ call.status = "ok"

\* C18: HasMergeConflicts reports a conflict exactly when the porcelain
\* status has at least one line beginning with "U"; a status with only
\* other entries, or with none, reports no conflict.
C18_ConflictIffUnmergedLine ==
    ConflictsTested
        => (call.conflicts <=> \E i \in 1..Len(call.lines) : call.lines[i] \in UnmergedLines)

\* A status whose only unmerged entry is its last line was reported as a
\* conflict.
C18_LastLineUnmerged ==
    /\ ConflictsTested
    /\ Len(call.lines) = 3
    /\ call.lines[1] \in OtherLines /\ call.lines[2] \in OtherLines
    /\ call.lines[3] \in UnmergedLines
    /\ call.conflicts

(***************************************************************************)
(* Properties of the order of the steps of one run.                        *)
(***************************************************************************)
\* The steps of a run, named by the position the run is at when the step
\* starts, in the order the specification gives them.
StepOrder == <<"fetch", "classify", "branch", "replay", "push", "openpr", "done">>
NextStep(from, to) ==
    \E i \in 1..(Len(StepOrder) - 1) : StepOrder[i] = from /\ StepOrder[i + 1] = to
\* What each step leaves behind when it has completed successfully.
Completed(step) ==
    CASE step = "fetch" -> pr # NoPR
      [] step = "classify" -> run.mergeMode \in {MMSQUASH, MMMERGE, MMREBASE}
      [] step = "branch" -> run.featureBranch \in DOMAIN wt.tips
      [] step = "replay" -> /\ Executed(IsCherryPick)
                            /\ ~hasMergeConflicts(RawStatus(StatusLines(wt)))
      [] step = "push" -> Executed(IsPush)
      [] OTHER -> TRUE
EarlierCompleted(step) ==
    \A i, j \in 1..Len(StepOrder) :
        (StepOrder[j] = step /\ i < j) => Completed(StepOrder[i])

\* C19: the steps of a run happen in the order fetch, classify, branch,
\* replay, push, open the pull request; a step starts only when every
\* earlier step has completed successfully, and no step runs twice.
C19_StepsInOrder ==
    [][(pc # "init" /\ pc' # pc)
          => /\ EarlierCompleted(pc)
             /\ pc' \in {"failed", "panicked"} \/ NextStep(pc, pc')]_vars

\* A step of the run has failed: it returned an error, or the replay left
\* unmerged entries in the working tree.
StepFailed ==
    \/ pc = "failed"
    \/ Executed(IsCherryPick) /\ wt.unmerged

\* C20: once a step of a run has failed, the run executes no further
\* operation on the local repository or on the gateway, and it returns a
\* non-nil error.
C20_FailureStopsRun ==
    /\ [][StepFailed => (ops' = ops /\ gh' = gh)]_vars
    /\ []((StepFailed /\ run.ret # "running") => run.ret = "error")

(***************************************************************************)
(* Properties of the push, of the start of a run and of the replay.        *)
(***************************************************************************)
PushCount == Cardinality({i \in DOMAIN ops : IsPush(ops[i])})
\* The run has ended in failure and its last operation is the push.
PushFailed ==
    /\ pc = "failed"
    /\ ops # <<>>
    /\ IsPush(ops[Len(ops)])

\* C21: when the push of the feature branch fails the run returns an
\* error, the push has been attempted exactly once and no pull request is
\* created; a run never pushes twice.
C21_PushFailureIsFatal ==
    /\ PushCount <= 1
    /\ PushFailed => /\ run.ret = "error"
                     /\ PushCount = 1
                     /\ ~Executed(IsCreatePR)

\* A replay without conflicts was followed by a push that failed.
C21_PushFailedAfterReplay ==
    /\ PushFailed
    /\ Executed(IsCherryPick)
    /\ ~wt.unmerged

\* C22: when the rebase marker is in the working tree at the start of a
\* run, the run gets no further than initialize: it returns an error and
\* has executed no git command (checkout, branch, cherry-pick, push,
\* remote) and made no gateway request.
C22_MarkerStopsRunBeforeAnyStep ==
    wt.marker =>
        /\ pc \in {"init", "failed"}
        /\ ops = <<>>
        /\ gh = NoGateway
        /\ pr = NoPR
        /\ pc = "failed" => run.ret = "error"

\* The local clone opened, the marker was found and the run has returned.
C22_MarkerFound ==
    /\ wt.marker
    /\ pc = "failed"
    /\ state.MergeStrategy = "recursive-theirs"

AutoResolveFlags == {"-X", "theirs", "ours", "--strategy=recursive"}
AutoResolving(op) ==
    /\ IsCherryPick(op)
    /\ \E j \in DOMAIN op.args : op.args[j] \in AutoResolveFlags

\* C23: conflicts are never resolved automatically: no cherry-pick command
\* of a run carries a conflict-resolution strategy (-X theirs, -X ours).
C23_NoAutoResolveStrategy == ~Executed(AutoResolving)

\* The remote the caller configured: initialize is the only writer of
\* opts.Remote and writes "user-fork" over an empty value only.
ConfiguredRemote == IF opts.Remote = "user-fork" THEN "" ELSE opts.Remote

\* C25: with no remote and no fork owner configured, the feature branch is
\* pushed to the remote origin, in a local clone and in a clone of the
\* run's own alike.
C25_UnconfiguredPushGoesToOrigin ==
    (ConfiguredRemote = "" /\ opts.ForkOwner = "") =>
        \A i \in DOMAIN ops : IsPush(ops[i]) => ops[i].args[2] = defaultRemote

\* The commit list of a cherry-pick command: its arguments after the
\* strategy flags.
PickedCommits(op) == SelectSeq(Tail(op.args), LAMBDA a : a \notin AutoResolveFlags)
CherryPickCount == Cardinality({i \in DOMAIN ops : IsCherryPick(ops[i])})

\* C26: for a PR classified Squash the replay is one cherry-pick whose
\* commit list is exactly <<mergeCommitSHA>>: no run holds a second one,
\* a finished replay holds one, and no head commit of the PR is picked.
C26_SquashPicksMergeCommitOnly ==
    run.mergeMode = MMSQUASH =>
        /\ CherryPickCount <= 1
        /\ pc \in {"push", "openpr", "done"} => CherryPickCount = 1
        /\ \A i \in DOMAIN ops :
              IsCherryPick(ops[i]) =>
                  /\ PickedCommits(ops[i]) = <<pr.MergeCommitSHA>>
                  /\ \A k \in DOMAIN gh.prCommits :
                        \A j \in DOMAIN ops[i].args : ops[i].args[j] # gh.prCommits[k]

\* A PR with a head commit was classified Squash and replayed cleanly.
C26_SquashReplayed ==
    /\ run.mergeMode = MMSQUASH
    /\ gh.prCommits # <<>>
    /\ pc = "push"
    /\ CherryPickCount = 1
    /\ wt.tips[run.featureBranch] = <<pr.MergeCommitSHA>>

(***************************************************************************)
(* Properties of repeated runs.                                            *)
(***************************************************************************)
\* C24: any two runs for the same PR number obtain different feature-branch
\* names.
C24_BranchNamesUniquePerPR ==
    \A i, j \in DOMAIN call.branches :
        (i < j /\ call.branches[i].number = call.branches[j].number)
            => call.branches[i].name # call.branches[j].name

(***************************************************************************)
(* Properties of the build configuration.                                  *)
(***************************************************************************)
\* The variables of a document that get a non-empty value neither from its
\* env section nor from the system environment.
Unsupplied(doc, environ) ==
    {v \in extractConfigVariables(doc) :
        /\ \A i \in DOMAIN doc.env : ~(doc.env[i].Var = v /\ doc.env[i].Value # "")
        /\ environ[v] = ""}

\* C27: a configuration that uses a variable for which neither the env
\* section nor the system environment has a non-empty value is rejected:
\* replaceVariables, and LoadConfig with it, returns an error.
C27_UnsuppliedVariableIsError ==
    (/\ call.fn \in {"replaceVariables", "LoadConfig"}
     /\ ~call.doc.nil
     /\ Unsupplied(call.doc, call.environ) # {})
        => call.status = "error"

(***************************************************************************)
(* Properties of the classifier called on its own.                         *)
(***************************************************************************)
\* The mode the decision rule gives for a merge commit and a commit list.
RuleMode(mergeCommit, commits) ==
    IF Len(mergeCommit.Parents) > 1 THEN MERGE
    ELSE IF Len(commits) = 1 THEN SQUASH
    ELSE IF ChangeTree(mergeCommit.Files) = ChangeTree(commits[Len(commits)].Files)
         THEN REBASE
    ELSE SQUASH

\* C28: for a merge commit that can be fetched and a commit list that is
\* not empty, getMergeMode returns without error the mode of the rule:
\* Merge for more than one parent, else Squash for a single commit, else
\* Rebase or Squash as the fingerprint of the merge commit equals that of
\* the last commit of the list or not.
C28_ModeFollowsRule ==
    (/\ call.fn = "getMergeMode"
     /\ MergeCommitFetched
     /\ call.commits # <<>>)
        => /\ call.status = "ok"
           /\ call.mode = RuleMode(MergeCommit, call.commits)

\* Two commits whose first and last fingerprints differ, the last one
\* equal to that of a single-parent merge commit: Rebase.
C28_RebaseByLastCommit ==
    /\ call.fn = "getMergeMode"
    /\ MergeCommitFetched
    /\ Len(call.commits) = 2
    /\ Len(MergeCommit.Parents) = 1
    /\ ChangeTree(call.commits[1].Files) # ChangeTree(MergeCommit.Files)
    /\ ChangeTree(call.commits[2].Files) = ChangeTree(MergeCommit.Files)
    /\ call.mode = REBASE

\* C29: for a PR with one head commit whose merge commit has one parent
\* and the fingerprint of that head commit, GetRebaseCommits produces the
\* list the Squash replay picks, <<mergeCommitSHA>>.
C29_SquashListIsRebaseList ==
    (/\ call.fn = "GetRebaseCommits"
     /\ MergeCommitFetched
     /\ HeadCount = 1
     /\ gh.prCommits[1] \in DOMAIN gh.commits
     /\ Len(MergeCommit.Parents) = 1
     /\ ChangeTree(MergeCommit.Files) = ChangeTree(LastHeadCommit.Files))
        => /\ call.status = "ok"
           /\ call.shas = <<pr.MergeCommitSHA>>

(***************************************************************************)
(* Properties of the handles on local repositories.                        *)
(***************************************************************************)
\* C30: handles do not share option state: every command a handle runs,
\* runs in the path the handle was opened or cloned for, with the merge
\* strategy set through that handle, whatever was opened, cloned or set
\* through other handles since.
C30_HandlesKeepOwnOptions ==
    \A k \in DOMAIN call.ran :
        LET r == call.ran[k] IN
        /\ r.cmd.dir = call.handles[r.handle].path
        /\ r.cmd.args = <<"cherry-pick">> \o StrategyArgs(r.own) \o <<BranchSHA(1)>>

====
